---- MODULE Spec2Model ----
(***************************************************************************)
(* next-express compiler (src-rust/src/main.rs).                           *)
(*                                                                         *)
(* The compiler walks a source directory, builds the AppRoute tree of the  *)
(* directories under src/app, sorts it, compiles it into the imports and   *)
(* routes text of the generated server module and writes that module.      *)
(*                                                                         *)
(* Strings are sequences of one-character strings, so that replace,        *)
(* strip_prefix, split, starts_with, ends_with and to_uppercase are        *)
(* computed the way the Rust standard library computes them.               *)
(* Generated statements are records holding the arguments of the format!   *)
(* call that writes them.                                                  *)
(***************************************************************************)
EXTENDS Integers, Sequences, FiniteSets, TLC

VARIABLES
    fs_dirs,        \* directories of the source tree (component sequences relative to src)
    fs_files,       \* files of the source tree (component sequences relative to src)
    fs_content,     \* contents of the route files read so far: file -> module
    pc,             \* position of compile(): setup, template, mkdir, build, sort, compile, write, done
    server_template,\* convention.server_template
    app_struct,     \* the AppStruct built by get_app_struct (None before)
    transformed,    \* the CompiledAppStruct (None before)
    result,         \* None while running, else the Result of compile()
    output,         \* contents of the output file (None: no file)
    write_calls,    \* number of calls of fs::write on the output path
    steps_ok,       \* steps of compile() that have returned Ok
    first           \* result and output of the previous run on this tree (None: first run)

vars == <<fs_dirs, fs_files, fs_content, pc, server_template, app_struct,
          transformed, result, output, write_calls, steps_ok, first>>

\* Option<T>: None is the empty sequence, Some(x) the sequence holding x
None == <<>>

Some(x) == <<x>>

is_some(o) == o # <<>>

unwrap(o) == o[1]

(***************************************************************************)
(* Bounds of the model.                                                    *)
(***************************************************************************)
MaxEntries == 4    \* directories below src/app and files of the source tree
MaxItems == 2      \* top-level items of a scanned route module

(***************************************************************************)
(* String literals.                                                        *)
(***************************************************************************)
S_app == <<"a", "p", "p">>
S_app_slash == <<"a", "p", "p", "/">>
S_slash == <<"/">>
S_route == <<"r", "o", "u", "t", "e">>
S_route_ts == <<"r", "o", "u", "t", "e", ".", "t", "s">>
S_route_js == <<"r", "o", "u", "t", "e", ".", "j", "s">>
S_middlewares == <<"m", "i", "d", "d", "l", "e", "w", "a", "r", "e", "s">>
S_tail_middlewares == <<"t", "a", "i", "l", "-">> \o S_middlewares
S_settings == <<"s", "e", "t", "t", "i", "n", "g", "s">>
S_ts == <<".", "t", "s">>
S_js == <<".", "j", "s">>
S_Middlewares == <<"M", "i", "d", "d", "l", "e", "w", "a", "r", "e", "s">>
S_Router == <<"R", "o", "u", "t", "e", "r">>
S_default == <<"d", "e", "f", "a", "u", "l", "t">>
S_GET == <<"G", "E", "T">>
S_get == <<"g", "e", "t">>
S_POST == <<"P", "O", "S", "T">>
S_PUT == <<"P", "U", "T">>
S_a == <<"a">>
S_group_a == <<"(", "a", ")">>
S_a_dash_b == <<"a", "-", "b">>
S_a_under_b == <<"a", "_", "b">>
S_custom_server == <<"c", "u", "s", "t", "o", "m", "-", "s", "e", "r", "v", "e", "r">>
S_appSettings == <<"a", "p", "p", "S", "e", "t", "t", "i", "n", "g", "s">>
S_topLevelMiddlewares == <<"t", "o", "p", "L", "e", "v", "e", "l">> \o S_Middlewares
S_tailMiddlewares == <<"t", "a", "i", "l">> \o S_Middlewares
\* pathdiff::diff_paths(src, dist) for the default directories src and nexp-compiled
S_dist_to_src == <<".", ".", "/", "s", "r", "c">>

(***************************************************************************)
(* str methods of the Rust standard library used by the compiler.          *)
(***************************************************************************)
starts_with(s, p) == Len(p) <= Len(s) /\ SubSeq(s, 1, Len(p)) = p

ends_with(s, p) == Len(p) <= Len(s) /\ SubSeq(s, Len(s) - Len(p) + 1, Len(s)) = p

\* str::replace(pat, to): every non-overlapping match, left to right
RECURSIVE replace(_, _, _)
replace(s, pat, to) ==
    IF pat = <<>> \/ Len(s) < Len(pat) THEN s
    ELSE IF starts_with(s, pat)
         THEN to \o replace(SubSeq(s, Len(pat) + 1, Len(s)), pat, to)
         ELSE <<Head(s)>> \o replace(Tail(s), pat, to)

\* str::strip_prefix(p).unwrap_or(s)
strip_prefix_or(s, p) == IF starts_with(s, p) THEN SubSeq(s, Len(p) + 1, Len(s)) ELSE s

\* str::split(c).collect()
RECURSIVE split(_, _)
split(s, c) ==
    IF s = <<>> THEN << <<>> >>
    ELSE IF Head(s) = c THEN << <<>> >> \o split(Tail(s), c)
         ELSE LET rest == split(Tail(s), c)
              IN  << <<Head(s)>> \o Head(rest) >> \o Tail(rest)

\* Path::join / diff_paths(..).to_string_lossy(): components joined by "/"
RECURSIVE join(_)
join(comps) ==
    IF comps = <<>> THEN <<>>
    ELSE IF Len(comps) = 1 THEN comps[1]
         ELSE comps[1] \o S_slash \o join(Tail(comps))

Lower == <<"a", "b", "d", "e", "f", "g", "l", "o", "p", "s", "t", "u">>
Upper == <<"A", "B", "D", "E", "F", "G", "L", "O", "P", "S", "T", "U">>

CharIndex(c, alphabet) == CHOOSE i \in 1..Len(alphabet) : alphabet[i] = c

InSeq(c, alphabet) == \E i \in 1..Len(alphabet) : alphabet[i] = c

to_uppercase(s) ==
    [i \in 1..Len(s) |-> IF InSeq(s[i], Lower) THEN Upper[CharIndex(s[i], Lower)] ELSE s[i]]

to_lowercase(s) ==
    [i \in 1..Len(s) |-> IF InSeq(s[i], Upper) THEN Lower[CharIndex(s[i], Upper)] ELSE s[i]]

\* str::trim(): leading and trailing white space removed
RECURSIVE trim(_)
trim(s) ==
    IF s = <<>> THEN s
    ELSE IF Head(s) = " " THEN trim(Tail(s))
    ELSE IF s[Len(s)] = " " THEN trim(SubSeq(s, 1, Len(s) - 1))
    ELSE s

\* byte order of the characters the model uses (their ASCII codes)
CharCode(c) ==
    CASE c = "(" -> 40 [] c = ")" -> 41 [] c = "-" -> 45 [] c = "." -> 46
      [] c = "/" -> 47 [] c = "_" -> 95
      [] InSeq(c, Upper) -> 64 + CharIndex(c, Upper)
      [] InSeq(c, Lower) -> 96 + CharIndex(c, Lower)
      [] OTHER -> 127

\* Ord::cmp on strings: s < t in byte-wise lexicographic order
RECURSIVE str_less(_, _)
str_less(s, t) ==
    IF t = <<>> THEN FALSE
    ELSE IF s = <<>> THEN TRUE
    ELSE IF Head(s) = Head(t) THEN str_less(Tail(s), Tail(t))
    ELSE CharCode(Head(s)) < CharCode(Head(t))

(***************************************************************************)
(* Convention (lines 79-124).                                              *)
(***************************************************************************)
support_ext == <<S_ts, S_js>>

get_filenames(basename) == {basename \o support_ext[i] : i \in 1..Len(support_ext)}

get_middlewares_filenames == get_filenames(S_middlewares)

get_tail_middlewares_filenames == get_filenames(S_tail_middlewares)

get_settings_filenames == get_filenames(S_settings)

get_route_filenames == get_filenames(S_route)

\* the candidate names in the order of support_ext (line 121-123)
get_custom_server_filenames ==
    [i \in 1..Len(support_ext) |-> S_custom_server \o support_ext[i]]

(***************************************************************************)
(* AppRoute and AppStruct (lines 37-57).                                   *)
(***************************************************************************)
AppRoute(name, relative_path) ==
    [name |-> name, relative_path |-> relative_path, route |-> None,
     middlewares |-> None, children |-> <<>>, sub_router |-> None]

\* find_app_route_recursive_mut (lines 224-238): the place of the first node, in
\* depth-first order, whose relative_path is the one looked for, as the sequence
\* of child indices leading to it; <<>> when there is none.
RECURSIVE find_app_route_from(_, _, _)
find_app_route_from(app_routes, i, relative_path) ==
    IF i > Len(app_routes) THEN <<>>
    ELSE IF app_routes[i].relative_path = relative_path THEN <<i>>
    ELSE LET child_route == find_app_route_from(app_routes[i].children, 1, relative_path)
         IN  IF child_route # <<>> THEN <<i>> \o child_route
             ELSE find_app_route_from(app_routes, i + 1, relative_path)

find_app_route_recursive_mut(app_routes, relative_path) ==
    find_app_route_from(app_routes, 1, relative_path)

\* the node a place refers to, and the list with that node replaced (the
\* dereference of, and the write through, the &mut AppRoute that was found)
RECURSIVE RouteAt(_, _)
RouteAt(app_routes, place) ==
    IF Len(place) = 1 THEN app_routes[place[1]]
    ELSE RouteAt(app_routes[place[1]].children, Tail(place))

RECURSIVE WithRouteAt(_, _, _)
WithRouteAt(app_routes, place, node) ==
    IF Len(place) = 1 THEN [app_routes EXCEPT ![place[1]] = node]
    ELSE [app_routes EXCEPT ![place[1]].children =
              WithRouteAt(app_routes[place[1]].children, Tail(place), node)]

is_virtual_group(name) ==
    starts_with(name, <<"(">>) /\ ends_with(name, <<")">>)

\* An entry yielded by WalkDir: a directory or a file, by its components below src.
Entry(is_dir, comps) == [is_dir |-> is_dir, comps |-> comps]

Front(s) == SubSeq(s, 1, Len(s) - 1)

\* The body of the loop over WalkDir's entries (lines 281-391).
WalkStep(st, entry) ==
    LET relative_path_str == join(entry.comps)
        is_inside_app_dir == starts_with(relative_path_str, S_app)
        parent_relative_path ==
            IF entry.comps = <<>> THEN <<".", ".">> ELSE join(Front(entry.comps))
        is_direct_children_of_app_dir ==
            entry.comps # <<>> /\ Front(entry.comps) = <<S_app>>
        filename == IF entry.comps = <<>> THEN <<>> ELSE entry.comps[Len(entry.comps)]
        place == find_app_route_recursive_mut(st.app.children, parent_relative_path)
    IN
    IF entry.is_dir
    THEN IF is_direct_children_of_app_dir
         THEN [st EXCEPT !.app.children =
                   Append(@, AppRoute(filename, relative_path_str))]
         ELSE IF is_inside_app_dir /\ place # <<>>
         THEN LET app_route == RouteAt(st.app.children, place)
              IN  [st EXCEPT !.app.children =
                       WithRouteAt(@, place,
                           [app_route EXCEPT !.children =
                                Append(@, AppRoute(filename, relative_path_str))])]
         ELSE st
    ELSE
    LET top == [st EXCEPT
                   !.top_level_middlewares =
                       IF relative_path_str \in get_middlewares_filenames
                       THEN Some(relative_path_str) ELSE @,
                   !.tail_middlewares =
                       IF relative_path_str \in get_tail_middlewares_filenames
                       THEN Some(relative_path_str) ELSE @,
                   !.settings =
                       IF relative_path_str \in get_settings_filenames
                       THEN Some(relative_path_str) ELSE @]
    IN
    IF is_direct_children_of_app_dir
    THEN [top EXCEPT
             !.app.route =
                 IF filename \in get_route_filenames THEN Some(filename) ELSE @,
             !.app.middlewares =
                 IF filename \in get_middlewares_filenames THEN Some(filename) ELSE @]
    ELSE IF is_inside_app_dir /\ place # <<>>
    THEN LET app_route == RouteAt(top.app.children, place)
             is_virtual_group_dir == is_virtual_group(app_route.name)
         IN  IF ~is_virtual_group_dir
             THEN [top EXCEPT !.app.children =
                      WithRouteAt(@, place,
                          [app_route EXCEPT
                              !.route = IF filename \in get_route_filenames
                                        THEN Some(filename) ELSE @,
                              !.middlewares = IF filename \in get_middlewares_filenames
                                              THEN Some(filename) ELSE @])]
             ELSE top
    ELSE top

\* The AppStruct before the walk (lines 258-275).
NewAppStruct ==
    [dist_to_src_relpath |-> S_dist_to_src,
     app |-> AppRoute(S_app, S_app),
     top_level_middlewares |-> None,
     tail_middlewares |-> None,
     settings |-> None]

\* get_app_struct (lines 240-401) over the entries in the order WalkDir yields them
RECURSIVE WalkFrom(_, _)
WalkFrom(st, entries) ==
    IF entries = <<>> THEN st
    ELSE WalkFrom(WalkStep(st, Head(entries)), Tail(entries))

get_app_struct(entries) == WalkFrom(NewAppStruct, entries)

(***************************************************************************)
(* WalkDir (line 281): a directory is yielded before its contents, and the *)
(* entries of one directory come in the order the file system lists them,  *)
(* which WalkDir does not sort.                                            *)
(***************************************************************************)
DirEntries(dirs, files, d) ==
    {Entry(TRUE, c) : c \in {x \in dirs : x # <<>> /\ Front(x) = d}}
        \cup {Entry(FALSE, c) : c \in {x \in files : Front(x) = d}}

RECURSIVE WalkOrders(_, _, _)
RECURSIVE ListingOrders(_, _, _)
\* the sequences in which WalkDir may yield the entry e and everything below it
WalkOrders(dirs, files, e) ==
    IF e.is_dir
    THEN {<<e>> \o below : below \in ListingOrders(dirs, files, DirEntries(dirs, files, e.comps))}
    ELSE {<<e>>}

\* the sequences in which the entries `left` of one directory, each followed by
\* what is below it, may be yielded
ListingOrders(dirs, files, left) ==
    IF left = {} THEN {<<>>}
    ELSE UNION {{o \o r : o \in WalkOrders(dirs, files, e),
                          r \in ListingOrders(dirs, files, left \ {e})} : e \in left}

\* sort_app_route (lines 760-769): a stable sort of the children by lower-cased
\* name, continued into the children only when there is more than one child.
RECURSIVE InsertSorted(_, _)
InsertSorted(sorted, node) ==
    IF sorted = <<>> THEN <<node>>
    ELSE IF str_less(to_lowercase(node.name), to_lowercase(sorted[Len(sorted)].name))
         THEN Append(InsertSorted(Front(sorted), node), sorted[Len(sorted)])
         ELSE Append(sorted, node)

RECURSIVE sort_by_name(_)
sort_by_name(children) ==
    IF children = <<>> THEN <<>>
    ELSE InsertSorted(sort_by_name(Front(children)), children[Len(children)])

RECURSIVE sort_app_route(_)
RECURSIVE sort_children(_)
sort_children(sorted) ==
    IF Len(sorted) > 1
    THEN [i \in 1..Len(sorted) |-> sort_app_route(sorted[i])]
    ELSE sorted

sort_app_route(app_route) ==
    [app_route EXCEPT !.children = sort_children(sort_by_name(app_route.children))]

(***************************************************************************)
(* Result<T>: Ok(v) or Err(e); an error holds its kind and the path its    *)
(* message names.                                                          *)
(***************************************************************************)
Ok(v) == [ok |-> TRUE, value |-> v]

Err(kind, path) == [ok |-> FALSE, kind |-> kind, path |-> path]

(***************************************************************************)
(* Export Scanner (lines 140-204, 427-464).  A module is the outcome of    *)
(* parsing a route file: whether it parses, and its top-level items.  An   *)
(* item is the AST node swc builds for it: node is its shape, name the     *)
(* declared name, is_async whether the function is declared async.         *)
(*   ExportFnDecl        export [async] function NAME() {}                 *)
(*   ExportVarArrow      export const NAME = [async] () => {}              *)
(*   ExportVarFn         export const NAME = [async] function () {}        *)
(*   ExportVarOther      export const NAME = 1                             *)
(*   ExportClass         export class NAME {}                              *)
(*   ExportDefaultArrow  export default [async] () => {}                   *)
(*   ExportDefaultFnExpr export default, its expression an Expr::Fn        *)
(*   ExportDefaultOther  export default 1                                  *)
(*   Plain               an item that is not exported                      *)
(***************************************************************************)
EndpointHandler(export_name, is_async) ==
    [export_name |-> export_name, is_async |-> is_async]

\* visit_export_decl (lines 159-190): what one ExportDecl pushes
visit_export_decl(n) ==
    CASE n.node = "ExportFnDecl" -> <<EndpointHandler(n.name, n.is_async)>>
      [] n.node = "ExportVarArrow" -> <<EndpointHandler(n.name, n.is_async)>>
      [] n.node \in {"ExportVarFn", "ExportVarOther"} -> <<EndpointHandler(n.name, FALSE)>>
      [] OTHER -> <<>>

\* visit_export_default_expr (lines 192-203): what one ExportDefaultExpr pushes
visit_export_default_expr(n) ==
    <<EndpointHandler(S_default,
        IF n.node \in {"ExportDefaultArrow", "ExportDefaultFnExpr"} THEN n.is_async ELSE FALSE)>>

\* module.visit_with(&mut visitor) (line 452): the items in source order
RECURSIVE ExportVisitor(_)
ExportVisitor(items) ==
    IF items = <<>> THEN <<>>
    ELSE (CASE Head(items).node \in {"ExportFnDecl", "ExportVarArrow", "ExportVarFn",
                                     "ExportVarOther", "ExportClass"} ->
                   visit_export_decl(Head(items))
            [] Head(items).node \in {"ExportDefaultArrow", "ExportDefaultFnExpr",
                                     "ExportDefaultOther"} ->
                   visit_export_default_expr(Head(items))
            [] OTHER -> <<>>)
         \o ExportVisitor(Tail(items))

\* get_endpoint_handlers (lines 427-464)
get_endpoint_handlers(module) ==
    IF ~module.parses THEN Err("ParseError", <<>>)
    ELSE Ok(ExportVisitor(module.items))

(***************************************************************************)
(* Route Tree Compiler (lines 206-222, 403-425, 466-626).                  *)
(***************************************************************************)
\* Config::default (lines 131-137)
method_not_allowed_res == "res.status(405).send(Method Not Allowed)"

\* route_name_to_identifier (lines 206-212)
route_name_to_identifier(name) ==
    LET n == replace(trim(name), <<"-">>, <<"_">>)
    IN  IF starts_with(n, <<"(">>) /\ ends_with(n, <<")">>)
        THEN Err("InvalidRouteName", name)
        ELSE Ok(n)

\* unique_route_handler_alias (lines 214-222)
unique_route_handler_alias(app_route) ==
    replace(replace(replace(replace(replace(app_route.relative_path,
        <<"/">>, <<"_">>), <<".">>, <<"_">>), <<"-">>, <<"_">>), <<"(">>, <<>>), <<")">>, <<>>)

\* the loop of rel_path_to_endpoint over the segments (lines 412-422)
RECURSIVE endpoint_of_segments(_)
endpoint_of_segments(segments) ==
    IF segments = <<>> THEN <<>>
    ELSE LET segment == Head(segments)
         IN  (IF starts_with(segment, <<"(">>) /\ ends_with(segment, <<")">>) THEN <<>>
              ELSE IF segment = S_route_ts THEN S_slash
              ELSE S_slash \o segment)
             \o endpoint_of_segments(Tail(segments))

\* rel_path_to_endpoint without the test for virtual groups
RECURSIVE endpoint_keeping_groups(_)
endpoint_keeping_groups(segments) ==
    IF segments = <<>> THEN <<>>
    ELSE (IF Head(segments) = S_route_ts THEN S_slash ELSE S_slash \o Head(segments))
         \o endpoint_keeping_groups(Tail(segments))

rel_path_to_endpoint_keeping_groups(rel_path) ==
    IF ~starts_with(rel_path, S_app_slash) \/ ~ends_with(rel_path, S_route_ts)
    THEN Err("InvalidRoutePath", rel_path)
    ELSE Ok(endpoint_keeping_groups(
                split(SubSeq(rel_path, Len(S_app_slash) + 1, Len(rel_path)), "/")))

\* rel_path_to_endpoint without the test for the route file's segment
RECURSIVE endpoint_keeping_file(_)
endpoint_keeping_file(segments) ==
    IF segments = <<>> THEN <<>>
    ELSE (IF starts_with(Head(segments), <<"(">>) /\ ends_with(Head(segments), <<")">>)
          THEN <<>> ELSE S_slash \o Head(segments))
         \o endpoint_keeping_file(Tail(segments))

rel_path_to_endpoint_keeping_file(rel_path) ==
    IF ~starts_with(rel_path, S_app_slash) \/ ~ends_with(rel_path, S_route_ts)
    THEN Err("InvalidRoutePath", rel_path)
    ELSE Ok(endpoint_keeping_file(
                split(SubSeq(rel_path, Len(S_app_slash) + 1, Len(rel_path)), "/")))

\* rel_path_to_endpoint (lines 403-425)
rel_path_to_endpoint(rel_path) ==
    IF ~starts_with(rel_path, S_app_slash) \/ ~ends_with(rel_path, S_route_ts)
    THEN Err("InvalidRoutePath", rel_path)
    ELSE Ok(endpoint_of_segments(
                split(SubSeq(rel_path, Len(S_app_slash) + 1, Len(rel_path)), "/")))

\* file name in an import path (lines 515-520, 599-604)
import_file(file) == replace(replace(file, S_ts, <<>>), S_js, <<>>)

import_from(dist_to_src_relpath, relative_path, file) ==
    dist_to_src_relpath \o S_slash \o relative_path \o S_slash \o import_file(file)

\* full_router_path (lines 493-499)
full_router_path(app_route) ==
    S_slash \o strip_prefix_or(app_route.relative_path, S_app_slash)

\* group_route_path (lines 501-505)
group_route_path(full_path, nearest_sub_router) ==
    IF is_some(nearest_sub_router)
    THEN replace(full_path, unwrap(nearest_sub_router).path, <<>>)
    ELSE full_path

\* endpoint_uri relative to the current sub-router (lines 554-556)
endpoint_uri_on(endpoint_uri, current_nearest_sub_router) ==
    IF is_some(current_nearest_sub_router)
    THEN replace(endpoint_uri, unwrap(current_nearest_sub_router).path, <<>>)
    ELSE endpoint_uri

\* parent_router / router (lines 530-532, 614-616)
router_of(sub_router) ==
    IF is_some(sub_router) THEN unwrap(sub_router).identifier ELSE S_app

\* dispatch_branch without to_uppercase
dispatch_branch_exact_case(handler, handler_alias) ==
    [method |-> handler.export_name,
     await |-> handler.is_async,
     alias |-> handler_alias,
     return |-> TRUE]

\* one branch of the dispatch (lines 606-611):
\*   if (req.method === METHOD) { [await ]ALIAS(req, res); return; }
dispatch_branch(handler, handler_alias) ==
    [method |-> to_uppercase(handler.export_name),
     await |-> handler.is_async,
     alias |-> handler_alias,
     return |-> TRUE]

\* handler_alias (lines 588-592)
handler_alias_of(app_route, handler) ==
    unique_route_handler_alias(app_route) \o <<"_">> \o handler.export_name

\* the import of one handler (lines 593-605)
handler_import(app_route, handler, dist_to_src_relpath) ==
    [kind |-> "import", export |-> handler.export_name,
     alias |-> handler_alias_of(app_route, handler),
     from |-> import_from(dist_to_src_relpath, app_route.relative_path,
                          unwrap(app_route.route))]

\* scanned_handlers without the test for an empty list
scanned_handlers_allowing_empty(scan, route_abs_path) ==
    IF scan.ok THEN Ok(scan.value) ELSE Err("ScanFailed", route_abs_path)

\* the outcome of the match on get_endpoint_handlers (lines 567-584)
scanned_handlers(scan, route_abs_path) ==
    IF scan.ok
    THEN IF scan.value = <<>>
         THEN Err("EmptyHandlerSet", route_abs_path)
         ELSE Ok(scan.value)
    ELSE Err("ScanFailed", route_abs_path)

\* the statements of the middleware part for a valid identifier (lines 507-546)
middleware_statements(imports, routes, app_route, dist_to_src_relpath, nearest_sub_router, full_path, identifier) ==
    [err |-> None,
     imports |-> Append(imports,
         [kind |-> "import", export |-> S_middlewares,
          alias |-> identifier \o S_Middlewares,
          from |-> import_from(dist_to_src_relpath, app_route.relative_path,
                               unwrap(app_route.middlewares))]),
     routes |-> routes \o
         <<[kind |-> "const_router", identifier |-> identifier \o S_Router],
           [kind |-> "use_router", parent |-> router_of(nearest_sub_router),
            path |-> group_route_path(full_path, nearest_sub_router),
            identifier |-> identifier \o S_Router],
           [kind |-> "use_middlewares", identifier |-> identifier \o S_Router,
            alias |-> identifier \o S_Middlewares]>>,
     app_route |-> [app_route EXCEPT !.sub_router =
         Some([identifier |-> identifier \o S_Router, path |-> full_path])]]

\* the ? on route_name_to_identifier (line 506)
middlewares_with_identifier(imports, routes, app_route, dist_to_src_relpath, nearest_sub_router, route_identifier) ==
    IF ~route_identifier.ok
    THEN [err |-> Some(route_identifier), imports |-> imports, routes |-> routes,
          app_route |-> app_route]
    ELSE middleware_statements(imports, routes, app_route, dist_to_src_relpath,
                               nearest_sub_router, full_router_path(app_route),
                               route_identifier.value)

\* compile_route, the middleware part (lines 489-547): the imports, the routes and
\* the node with its sub_router set; nothing when the node has no middleware file
compile_middlewares(imports, routes, app_route, dist_to_src_relpath, nearest_sub_router) ==
    IF is_some(app_route.middlewares)
    THEN middlewares_with_identifier(imports, routes, app_route, dist_to_src_relpath,
                                     nearest_sub_router,
                                     route_name_to_identifier(app_route.name))
    ELSE [err |-> None, imports |-> imports, routes |-> routes, app_route |-> app_route]

\* the imports and the registration written for the handlers (lines 586-621)
handler_statements(imports, routes, app_route, dist_to_src_relpath, current_nearest_sub_router, endpoint_uri, handlers) ==
    [err |-> None,
     imports |-> imports \o
         [i \in 1..Len(handlers) |->
             handler_import(app_route, handlers[i], dist_to_src_relpath)],
     routes |-> Append(routes,
         [kind |-> "all", router |-> router_of(current_nearest_sub_router),
          path |-> endpoint_uri_on(endpoint_uri, current_nearest_sub_router),
          branches |-> [i \in 1..Len(handlers) |->
              dispatch_branch(handlers[i], handler_alias_of(app_route, handlers[i]))],
          otherwise |-> method_not_allowed_res]),
     app_route |-> app_route]

\* the ? on rel_path_to_endpoint and the returns of the match (lines 552-584)
handlers_at_endpoint(imports, routes, app_route, dist_to_src_relpath, current_nearest_sub_router, endpoint, handlers) ==
    IF ~endpoint.ok
    THEN [err |-> Some(endpoint), imports |-> imports, routes |-> routes,
          app_route |-> app_route]
    ELSE IF ~handlers.ok
    THEN [err |-> Some(handlers), imports |-> imports, routes |-> routes,
          app_route |-> app_route]
    ELSE handler_statements(imports, routes, app_route, dist_to_src_relpath,
                            current_nearest_sub_router, endpoint.value, handlers.value)

\* path of the route file of a node (line 553)
route_rel_path(app_route) == app_route.relative_path \o S_slash \o unwrap(app_route.route)

\* compile_route, the route part (lines 549-622), after the middleware part mw
compile_handlers(mw, dist_to_src_relpath, nearest_sub_router, module) ==
    IF is_some(mw.err) \/ ~is_some(mw.app_route.route) THEN mw
    ELSE handlers_at_endpoint(mw.imports, mw.routes, mw.app_route, dist_to_src_relpath,
             IF is_some(mw.app_route.middlewares) THEN mw.app_route.sub_router
             ELSE nearest_sub_router,
             rel_path_to_endpoint(route_rel_path(mw.app_route)),
             scanned_handlers(get_endpoint_handlers(module), route_rel_path(mw.app_route)))

\* the end of compile_route (lines 624-625)
end_route(rt) ==
    IF is_some(rt.err) THEN rt ELSE [rt EXCEPT !.routes = Append(@, [kind |-> "newline"])]

\* compile_route (lines 466-626).  module is the parse of the route file of the
\* node (not read when the node has no route file).
compile_route(imports, routes, app_route, dist_to_src_relpath, nearest_sub_router, module) ==
    end_route(compile_handlers(
        compile_middlewares(imports,
            Append(routes, [kind |-> "comment", name |-> app_route.name,
                            relative_path |-> app_route.relative_path]),
            app_route, dist_to_src_relpath, nearest_sub_router),
        dist_to_src_relpath, nearest_sub_router, module))

\* the parse of the route file attached to a node
ModuleOf(contents, app_route) ==
    IF is_some(app_route.route)
    THEN contents[route_rel_path(app_route)]
    ELSE [parses |-> TRUE, items |-> <<>>]

\* traverse_route (lines 689-734).  traverse_children is its loop over the
\* children (lines 718-731), which stops at the first error; c is what
\* compile_route left, r what the traversal of child i left.
RECURSIVE traverse_route(_, _, _, _, _, _)
RECURSIVE traverse_children(_, _, _, _, _, _, _)
RECURSIVE traverse_compiled(_, _, _, _)
RECURSIVE traverse_next_child(_, _, _, _, _, _)
traverse_route(app_route, imports, routes, dist_to_src_relpath, nearest_sub_router, contents) ==
    traverse_compiled(
        IF is_some(app_route.route) \/ is_some(app_route.middlewares)
        THEN compile_route(imports, routes, app_route, dist_to_src_relpath,
                           nearest_sub_router, ModuleOf(contents, app_route))
        ELSE [err |-> None, imports |-> imports, routes |-> routes,
              app_route |-> app_route],
        dist_to_src_relpath, nearest_sub_router, contents)

traverse_compiled(c, dist_to_src_relpath, nearest_sub_router, contents) ==
    IF is_some(c.err) THEN c
    ELSE traverse_children(c.app_route, 1, c.imports, c.routes, dist_to_src_relpath,
                           IF is_some(c.app_route.sub_router) THEN c.app_route.sub_router
                           ELSE nearest_sub_router,
                           contents)

traverse_children(app_route, i, imports, routes, dist_to_src_relpath, current_sub_router, contents) ==
    IF i > Len(app_route.children)
    THEN [err |-> None, imports |-> imports, routes |-> routes, app_route |-> app_route]
    ELSE traverse_next_child(app_route, i,
             traverse_route(app_route.children[i], imports, routes,
                            dist_to_src_relpath, current_sub_router, contents),
             dist_to_src_relpath, current_sub_router, contents)

traverse_next_child(app_route, i, r, dist_to_src_relpath, current_sub_router, contents) ==
    IF is_some(r.err)
    THEN [r EXCEPT !.app_route = [app_route EXCEPT !.children[i] = r.app_route]]
    ELSE traverse_children([app_route EXCEPT !.children[i] = r.app_route], i + 1,
                           r.imports, r.routes, dist_to_src_relpath, current_sub_router,
                           contents)

\* the imports and statements of the top-level files (lines 650-687)
top_level_imports(st) ==
    (IF is_some(st.settings)
     THEN <<[kind |-> "import", export |-> S_settings, alias |-> S_appSettings,
             from |-> st.dist_to_src_relpath \o S_slash \o import_file(unwrap(st.settings))]>>
     ELSE <<>>)
    \o (IF is_some(st.top_level_middlewares)
        THEN <<[kind |-> "import", export |-> S_middlewares, alias |-> S_topLevelMiddlewares,
                from |-> st.dist_to_src_relpath \o S_slash
                             \o import_file(unwrap(st.top_level_middlewares))]>>
        ELSE <<>>)
    \o (IF is_some(st.tail_middlewares)
        THEN <<[kind |-> "import", export |-> S_middlewares, alias |-> S_tailMiddlewares,
                from |-> st.dist_to_src_relpath \o S_slash
                             \o import_file(unwrap(st.tail_middlewares))]>>
        ELSE <<>>)

\* the return of compile_app_struct (lines 746-756) after the traversal t
compiled_fragments(st, t) ==
    IF is_some(t.err) THEN unwrap(t.err)
    ELSE Ok([imports |-> t.imports,
             settings |-> IF is_some(st.settings) THEN "app.set" ELSE "",
             top_level_middlewares |->
                 IF is_some(st.top_level_middlewares)
                 THEN "app.use(...topLevelMiddlewares)" ELSE "",
             routes |-> t.routes,
             tail_middlewares |->
                 IF is_some(st.tail_middlewares)
                 THEN "app.use(...tailMiddlewares)" ELSE ""])

\* compile_app_struct (lines 637-757): the CompiledAppStruct or the first error,
\* and the tree as the traversal left it
compile_app_struct(st, contents) ==
    LET t == traverse_route(st.app, top_level_imports(st), <<>>, st.dist_to_src_relpath,
                            None, contents)
    IN  [result |-> compiled_fragments(st, t), app |-> t.app_route]

\* the replacement of the template's markers (lines 824-836)
assemble(template, compiled) ==
    [template |-> template,
     imports |-> compiled.imports,
     settings |-> compiled.settings,
     top_level_middlewares |-> compiled.top_level_middlewares,
     routes |-> compiled.routes,
     tail_middlewares |-> compiled.tail_middlewares]

\* compile going on after an error
next_pc_ignoring_error(r, next) == next

\* the ? operator in compile (lines 803, 811, 815, 821, 839): an error returns
next_pc(r, next) == IF r.ok THEN next ELSE "done"

(***************************************************************************)
(* The source tree.                                                        *)
(***************************************************************************)
\* names of the directories created below src/app
DirNames == {S_a, S_group_a, S_a_dash_b, S_a_under_b}

S_middlewares_ts == S_middlewares \o S_ts

\* names of the files created in src/app and below it, and directly in src
FileNames == {S_route_ts, S_route_js, S_middlewares_ts}

TopFileNames == {S_custom_server \o S_ts}

SrcRoot == <<>>

AppDir == <<S_app>>

\* the route files attached to the nodes of a tree, by their paths below src
RECURSIVE RouteFilesOf(_)
RouteFilesOf(app_route) ==
    (IF is_some(app_route.route)
     THEN {app_route.relative_path \o S_slash \o unwrap(app_route.route)} ELSE {})
    \cup UNION {RouteFilesOf(app_route.children[i]) : i \in 1..Len(app_route.children)}

\* Modules a route file of the source tree may hold.
Item(node, name, is_async) == [node |-> node, name |-> name, is_async |-> is_async]

Unparsable == [parses |-> FALSE, items |-> <<>>]

Parsed(items) == [parses |-> TRUE, items |-> items]

Modules ==
    {Unparsable,
     Parsed(<<Item("Plain", S_GET, FALSE)>>),
     Parsed(<<Item("ExportFnDecl", S_GET, FALSE), Item("ExportVarArrow", S_POST, TRUE)>>)}

(***************************************************************************)
(* The environment: the source tree compile() is run on.                   *)
(***************************************************************************)
EntryCount == Cardinality(fs_dirs \ {SrcRoot, AppDir}) + Cardinality(fs_files)

MkDir ==
    /\ pc = "setup"
    /\ EntryCount < MaxEntries
    /\ \E parent \in fs_dirs \ {SrcRoot}, name \in DirNames :
           /\ Append(parent, name) \notin fs_dirs
           /\ fs_dirs' = fs_dirs \cup {Append(parent, name)}
    /\ UNCHANGED <<fs_files, fs_content, pc, server_template, app_struct, transformed,
                   result, output, write_calls, steps_ok, first>>

Touch ==
    /\ pc = "setup"
    /\ EntryCount < MaxEntries
    /\ \E dir \in fs_dirs, name \in FileNames \cup TopFileNames :
           /\ name \in TopFileNames <=> dir = SrcRoot
           /\ Append(dir, name) \notin fs_files
           /\ fs_files' = fs_files \cup {Append(dir, name)}
    /\ UNCHANGED <<fs_dirs, fs_content, pc, server_template, app_struct, transformed,
                   result, output, write_calls, steps_ok, first>>

\* main calls compile (line 878)
Start ==
    /\ pc = "setup"
    /\ pc' = "template"
    /\ UNCHANGED <<fs_dirs, fs_files, fs_content, server_template, app_struct, transformed,
                   result, output, write_calls, steps_ok, first>>

(***************************************************************************)
(* compile (lines 771-843), one action per step.                           *)
(***************************************************************************)
\* lines 786-806: the first custom server template that exists is read, which may
\* fail; the outcomes of the step
RECURSIVE first_existing(_, _)
first_existing(paths, files) ==
    IF paths = <<>> THEN None
    ELSE IF <<Head(paths)>> \in files THEN Some(Head(paths))
    ELSE first_existing(Tail(paths), files)

read_server_template(files) ==
    LET found == first_existing(get_custom_server_filenames, files)
    IN  IF is_some(found)
        THEN {Ok("custom-server"), Err("IOError", unwrap(found))}
        ELSE {Ok("SERVER_TEMPLATE")}

LoadTemplate ==
    /\ pc = "template"
    /\ \E r \in read_server_template(fs_files) :
           /\ pc' = next_pc(r, "mkdir")
           /\ server_template' = IF r.ok THEN r.value ELSE server_template
           /\ result' = IF r.ok THEN result ELSE Some(r)
           /\ steps_ok' = IF r.ok THEN steps_ok \cup {"template"} ELSE steps_ok
    /\ UNCHANGED <<fs_dirs, fs_files, fs_content, app_struct, transformed, output,
                   write_calls, first>>

\* lines 808-812: the directory of the output file is created
EnsureOutputDir ==
    /\ pc = "mkdir"
    /\ \E r \in {Ok("dist"), Err("IOError", "dist")} :
           /\ pc' = next_pc(r, "build")
           /\ result' = IF r.ok THEN result ELSE Some(r)
           /\ steps_ok' = IF r.ok THEN steps_ok \cup {"mkdir"} ELSE steps_ok
    /\ UNCHANGED <<fs_dirs, fs_files, fs_content, server_template, app_struct, transformed,
                   output, write_calls, first>>

\* line 815: get_app_struct; canonicalize or an entry of the walk may fail
BuildAppStruct ==
    /\ pc = "build"
    /\ \E r \in {Ok(get_app_struct(o)) : o \in WalkOrders(fs_dirs, fs_files, Entry(TRUE, SrcRoot))}
                    \cup {Err("IOError", "src")} :
           /\ pc' = next_pc(r, "sort")
           /\ app_struct' = IF r.ok THEN Some(r.value) ELSE app_struct
           /\ result' = IF r.ok THEN result ELSE Some(r)
           /\ steps_ok' = IF r.ok THEN steps_ok \cup {"build"} ELSE steps_ok
    /\ UNCHANGED <<fs_dirs, fs_files, fs_content, server_template, transformed, output,
                   write_calls, first>>

\* line 818: sort_app_route
SortAppRoute ==
    /\ pc = "sort"
    /\ pc' = "compile"
    /\ app_struct' = Some([unwrap(app_struct) EXCEPT !.app = sort_app_route(@)])
    /\ steps_ok' = steps_ok \cup {"sort"}
    /\ UNCHANGED <<fs_dirs, fs_files, fs_content, server_template, transformed, result,
                   output, write_calls, first>>

\* the contents of the route files of the tree: what was read before is read again
Contents(files, modules) ==
    {c \in [files -> modules] :
        \A f \in files \cap DOMAIN fs_content : c[f] = fs_content[f]}

\* line 821: compile_app_struct over the route files' contents; r is what it returns
CompileReturns(r, contents) ==
    /\ pc' = next_pc(r.result, "write")
    /\ fs_content' = contents @@ fs_content
    /\ app_struct' = Some([unwrap(app_struct) EXCEPT !.app = r.app])
    /\ transformed' = IF r.result.ok THEN Some(r.result.value) ELSE transformed
    /\ result' = IF r.result.ok THEN result ELSE Some(r.result)
    /\ steps_ok' = IF r.result.ok THEN steps_ok \cup {"compile"} ELSE steps_ok

CompileAppStruct(modules) ==
    /\ pc = "compile"
    /\ \E contents \in Contents(RouteFilesOf(unwrap(app_struct).app), modules) :
           CompileReturns(compile_app_struct(unwrap(app_struct), contents), contents)
    /\ UNCHANGED <<fs_dirs, fs_files, server_template, output, write_calls, first>>

\* lines 824-842: the template is filled and fs::write is called.  A write that
\* fails may leave no file or an incomplete one.
WriteOutput ==
    /\ pc = "write"
    /\ pc' = "done"
    /\ write_calls' = write_calls + 1
    /\ \/ /\ output' = Some(assemble(server_template, unwrap(transformed)))
          /\ result' = Some(Ok("written"))
          /\ steps_ok' = steps_ok \cup {"write"}
       \/ /\ output' \in {None, Some("incomplete")}
          /\ result' = Some(Err("IOError", "output"))
          /\ steps_ok' = steps_ok
    /\ UNCHANGED <<fs_dirs, fs_files, fs_content, server_template, app_struct, transformed,
                   first>>

\* compile is run again on the unchanged source tree
Recompile ==
    /\ pc = "done"
    /\ first = None
    /\ first' = Some([result |-> unwrap(result), output |-> output])
    /\ pc' = "template"
    /\ server_template' = "SERVER_TEMPLATE"
    /\ app_struct' = None
    /\ transformed' = None
    /\ result' = None
    /\ output' = None
    /\ write_calls' = 0
    /\ steps_ok' = {}
    /\ UNCHANGED <<fs_dirs, fs_files, fs_content>>

Init ==
    /\ fs_dirs = {SrcRoot, AppDir}
    /\ fs_files = {}
    /\ fs_content = <<>>
    /\ pc = "setup"
    /\ server_template = "SERVER_TEMPLATE"
    /\ app_struct = None
    /\ transformed = None
    /\ result = None
    /\ output = None
    /\ write_calls = 0
    /\ steps_ok = {}
    /\ first = None

Next ==
    \/ MkDir
    \/ Touch
    \/ Start
    \/ LoadTemplate
    \/ EnsureOutputDir
    \/ BuildAppStruct
    \/ SortAppRoute
    \/ CompileAppStruct(Modules)
    \/ WriteOutput

Spec == Init /\ [][Next]_vars

(***************************************************************************)
(* The scanner and the dispatch on every module of at most MaxItems items: *)
(* compile() on the tree src/app/a/route.ts, with or without               *)
(* src/app/a/middlewares.ts.                                               *)
(***************************************************************************)
HandlerNames == {S_GET, S_get, S_POST}

ItemUniverse ==
    {Item(node, name, is_async) :
        node \in {"ExportFnDecl", "ExportVarArrow", "ExportVarFn"},
        name \in HandlerNames, is_async \in BOOLEAN}
    \cup {Item(node, S_GET, FALSE) : node \in {"ExportVarOther", "ExportClass", "Plain"}}
    \cup {Item(node, S_default, is_async) :
        node \in {"ExportDefaultArrow", "ExportDefaultFnExpr"}, is_async \in BOOLEAN}
    \cup {Item("ExportDefaultOther", S_default, FALSE)}

ScanModules ==
    {Unparsable} \cup
    {Parsed(items) : items \in UNION {[1..n -> ItemUniverse] : n \in 0..MaxItems}}

InitScan ==
    /\ fs_dirs = {SrcRoot, AppDir, <<S_app, S_a>>}
    /\ fs_files \in {{<<S_app, S_a, S_route_ts>>},
                     {<<S_app, S_a, S_route_ts>>, <<S_app, S_a, S_middlewares_ts>>}}
    /\ fs_content = <<>>
    /\ pc = "template"
    /\ server_template = "SERVER_TEMPLATE"
    /\ app_struct = None
    /\ transformed = None
    /\ result = None
    /\ output = None
    /\ write_calls = 0
    /\ steps_ok = {}
    /\ first = None

NextScan ==
    \/ LoadTemplate
    \/ EnsureOutputDir
    \/ BuildAppStruct
    \/ SortAppRoute
    \/ CompileAppStruct(ScanModules)
    \/ WriteOutput

SpecScan == InitScan /\ [][NextScan]_vars

\* compile() run twice on one source tree
NextTwice == Next \/ Recompile

SpecTwice == Init /\ [][NextTwice]_vars

(***************************************************************************)
(* Reading the state: the nodes of the tree and the statements generated   *)
(* for each of them.                                                       *)
(***************************************************************************)
RECURSIVE Nodes(_)
Nodes(app_route) ==
    {app_route} \cup UNION {Nodes(app_route.children[i]) : i \in 1..Len(app_route.children)}

\* the nodes of the tree that was compiled, once compile_app_struct has returned Ok
CompiledNodes == IF is_some(transformed) THEN Nodes(unwrap(app_struct).app) ELSE {}

CompiledRoutes == unwrap(transformed).routes

CompiledImports == unwrap(transformed).imports

IsProperAncestor(a, n) == starts_with(n.relative_path, a.relative_path \o S_slash)

\* the proper ancestors of n that have a middleware file
MiddlewareAncestors(n) ==
    {a \in CompiledNodes : IsProperAncestor(a, n) /\ is_some(a.middlewares)}

\* the nearest of them
NearestMiddlewareAncestor(n) ==
    CHOOSE a \in MiddlewareAncestors(n) :
        \A b \in MiddlewareAncestors(n) : Len(b.relative_path) <= Len(a.relative_path)

\* the statements written for the node at relative_path: those between its
\* comment line and the next comment line
StatementsOf(routes, relative_path) ==
    LET IsComment(i) == routes[i].kind = "comment"
        start == CHOOSE i \in 1..Len(routes) :
                     IsComment(i) /\ routes[i].relative_path = relative_path
        later == {j \in (start + 1)..Len(routes) : IsComment(j)}
        stop == IF later = {} THEN Len(routes) + 1
                ELSE CHOOSE j \in later : \A k \in later : j <= k
    IN  SubSeq(routes, start + 1, stop - 1)

OfKind(stmts, kind) == SelectSeq(stmts, LAMBDA st : st.kind = kind)

\* the directories of a node below the routing root
DirsOf(n) ==
    IF n.relative_path = S_app THEN <<>>
    ELSE split(SubSeq(n.relative_path, Len(S_app_slash) + 1, Len(n.relative_path)), "/")

\* the absolute mount path of a node: its relative_path below the routing root
AbsoluteMountPath(n) == S_slash \o join(IF n.relative_path = S_app THEN <<S_app>> ELSE DirsOf(n))

StripPrefix(s, prefix) ==
    IF starts_with(s, prefix) THEN SubSeq(s, Len(prefix) + 1, Len(s)) ELSE s

RouterIdentifier(n) == replace(n.name, <<"-">>, <<"_">>) \o S_Router

\* C1: every node n with a middleware file is mounted on the sub-router of its
\* nearest proper ancestor p with a middleware file (on app when there is none)
\* at n's absolute mount path with p's absolute mount path stripped as a prefix,
\* and n's own route is registered on n's sub-router at "/".
C1_NestedMount ==
    \A n \in CompiledNodes :
        is_some(n.middlewares) =>
            LET stmts == StatementsOf(CompiledRoutes, n.relative_path)
                mounts == OfKind(stmts, "use_router")
                regs == OfKind(stmts, "all")
                has_p == MiddlewareAncestors(n) # {}
                p == NearestMiddlewareAncestor(n)
            IN  /\ Len(mounts) = 1
                /\ mounts[1].identifier = RouterIdentifier(n)
                /\ mounts[1].parent = IF has_p THEN RouterIdentifier(p) ELSE S_app
                /\ mounts[1].path =
                       IF has_p
                       THEN StripPrefix(AbsoluteMountPath(n), AbsoluteMountPath(p))
                       ELSE AbsoluteMountPath(n)
                /\ is_some(n.route) =>
                       /\ Len(regs) = 1
                       /\ regs[1].router = RouterIdentifier(n)
                       /\ regs[1].path = S_slash

\* C2: no segment of the path of a generated endpoint registration is a
\* virtual-group segment.
C2_NoVirtualGroupInEndpoint ==
    is_some(transformed) =>
        \A i \in 1..Len(CompiledRoutes) :
            CompiledRoutes[i].kind = "all" =>
                LET segments == split(CompiledRoutes[i].path, "/")
                IN  \A k \in 1..Len(segments) : ~is_virtual_group(segments[k])

\* a route file below a virtual group, and below a sub-router, was registered
C2_Witness ==
    \E n \in CompiledNodes :
        /\ is_some(n.route)
        /\ \E k \in 1..Len(DirsOf(n)) : is_virtual_group(DirsOf(n)[k])
        /\ Len(OfKind(StatementsOf(CompiledRoutes, n.relative_path), "all")) = 1

\* the nodes with a route file that no sub-router encloses and whose directories
\* are not virtual groups
PlainRouteNodes ==
    {n \in CompiledNodes :
        /\ is_some(n.route)
        /\ ~is_some(n.middlewares)
        /\ MiddlewareAncestors(n) = {}
        /\ DirsOf(n) # <<>>
        /\ \A k \in 1..Len(DirsOf(n)) : ~is_virtual_group(DirsOf(n)[k])}

RegistrationsOf(n) == OfKind(StatementsOf(CompiledRoutes, n.relative_path), "all")

\* C3 as stated: the registration of a route file in the directories d1/../dk,
\* none a virtual group and none below a sub-router, has the path "/d1/../dk".
C3_EndpointIsJoinedDirs ==
    \A n \in PlainRouteNodes :
        /\ Len(RegistrationsOf(n)) = 1
        /\ RegistrationsOf(n)[1].path = S_slash \o join(DirsOf(n))

\* C3 as amended: that registration has the path "/d1/../dk/", the separator
\* the route file's segment contributes included.
C3_EndpointIsJoinedDirsSlash ==
    \A n \in PlainRouteNodes :
        /\ Len(RegistrationsOf(n)) = 1
        /\ RegistrationsOf(n)[1].router = S_app
        /\ RegistrationsOf(n)[1].path = S_slash \o join(DirsOf(n)) \o S_slash

\* a route file two directories below the routing root was registered
C3_Witness ==
    \E n \in PlainRouteNodes : Len(DirsOf(n)) = 2 /\ Len(RegistrationsOf(n)) = 1

\* the HTTP methods of the requests considered
Methods == {S_GET, S_POST, S_PUT}

\* the module read from the route file of a node, and the handlers scanned in it
ModuleRead(n) == fs_content[n.relative_path \o S_slash \o unwrap(n.route)]

HandlersOf(n) == ExportVisitor(ModuleRead(n).items)

\* what the generated handler does with a request of method m: the first branch
\* whose test matches is taken and returns; with none, the response after the
\* branches is sent
Dispatch(reg, m) ==
    LET matching == {i \in 1..Len(reg.branches) : reg.branches[i].method = m}
        i == CHOOSE k \in matching : \A j \in matching : k <= j
    IN  IF matching = {} \/ ~reg.branches[i].return
        THEN [call |-> None, response |-> reg.otherwise]
        ELSE [call |-> Some(reg.branches[i].alias), response |-> ""]

\* the alias under which the import statements bind the export `name` of n's route file
ImportedAliases(n, name) ==
    {CompiledImports[i].alias : i \in
        {j \in 1..Len(CompiledImports) :
            /\ CompiledImports[j].export = name
            /\ CompiledImports[j].from =
                   import_from(S_dist_to_src, n.relative_path, unwrap(n.route))}}

RouteNodes == {n \in CompiledNodes : is_some(n.route)}

\* C4 as stated: a route file is compiled into one registration, in which a request
\* of method m is dispatched to the alias of the handler whose exported name is
\* m, and gets the method-not-allowed response when no handler is named m.
C4_DispatchByExportName ==
    \A n \in RouteNodes :
        /\ Len(RegistrationsOf(n)) = 1
        /\ \A m \in Methods :
               LET d == Dispatch(RegistrationsOf(n)[1], m)
                   named == {i \in 1..Len(HandlersOf(n)) : HandlersOf(n)[i].export_name = m}
               IN  IF named = {}
                   THEN d = [call |-> None, response |-> method_not_allowed_res]
                   ELSE is_some(d.call) /\ unwrap(d.call) \in ImportedAliases(n, m)

\* C4 as amended: the request is dispatched to the alias of the first handler
\* whose exported name, in upper case, is m, and gets the method-not-allowed
\* response when there is no such handler.
C4_DispatchByUpperCasedName ==
    \A n \in RouteNodes :
        /\ Len(RegistrationsOf(n)) = 1
        /\ \A m \in Methods :
               LET d == Dispatch(RegistrationsOf(n)[1], m)
                   named == {i \in 1..Len(HandlersOf(n)) :
                                to_uppercase(HandlersOf(n)[i].export_name) = m}
                   h == CHOOSE i \in named : \A j \in named : i <= j
               IN  IF named = {}
                   THEN d = [call |-> None, response |-> method_not_allowed_res]
                   ELSE /\ is_some(d.call)
                        /\ ImportedAliases(n, HandlersOf(n)[h].export_name) = {unwrap(d.call)}

\* a route file exporting GET and POST was compiled
C4_Witness ==
    \E n \in RouteNodes :
        /\ Len(HandlersOf(n)) = 2
        /\ HandlersOf(n)[1].export_name = S_GET
        /\ HandlersOf(n)[2].export_name = S_POST
        /\ Len(RegistrationsOf(n)) = 1

\* the items of the three recognized shapes, and the items the scanner reports
IsRecognizedShape(item) ==
    item.node \in {"ExportFnDecl", "ExportVarArrow", "ExportVarFn",
                   "ExportDefaultArrow", "ExportDefaultFnExpr"}

IsReported(item) == Len(ExportVisitor(<<item>>)) = 1

\* C7: the branch of a reported handler of one of the three recognized shapes
\* awaits the call if and only if the handler is declared async.
C7_AwaitIffAsync ==
    \A n \in RouteNodes :
        LET reported == SelectSeq(ModuleRead(n).items, IsReported)
            branches == RegistrationsOf(n)[1].branches
        IN  /\ Len(branches) = Len(reported)
            /\ \A i \in 1..Len(reported) :
                   IsRecognizedShape(reported[i]) =>
                       (branches[i].await <=> reported[i].is_async)

\* the route files attached to the tree that parse and hold no handler
AttachedRouteFiles ==
    IF is_some(app_struct) THEN RouteFilesOf(unwrap(app_struct).app) ELSE {}

EmptyRouteFiles ==
    {f \in AttachedRouteFiles \cap DOMAIN fs_content :
        fs_content[f].parses /\ ExportVisitor(fs_content[f].items) = <<>>}

StepsBeforeWrite == {"template", "mkdir", "build", "sort", "compile"}

\* C6: fs::write is called at most once, only after template loading, tree
\* building, sorting and compilation have all returned Ok; a run in which one of
\* them fails ends there, with no call of fs::write and no output file; a run
\* that returns Ok leaves the assembled module.
C6_WriteOnceAtEnd ==
    /\ write_calls <= 1
    /\ write_calls = 1 => pc = "done" /\ StepsBeforeWrite \subseteq steps_ok
    /\ pc = "write" => StepsBeforeWrite \subseteq steps_ok /\ result = None /\ write_calls = 0
    /\ is_some(result) => pc = "done"
    /\ (pc = "done" /\ ~(StepsBeforeWrite \subseteq steps_ok)) =>
           write_calls = 0 /\ output = None /\ ~unwrap(result).ok
    /\ (is_some(result) /\ unwrap(result).ok) =>
           output = Some(assemble(server_template, unwrap(transformed)))

\* a run wrote the module of a tree with a route
C6_Witness ==
    /\ pc = "done"
    /\ unwrap(result).ok
    /\ write_calls = 1
    /\ is_some(output)
    /\ AttachedRouteFiles # {}

\* C8: compile() run again on the unchanged source tree, whatever the order in
\* which the walk lists the entries, leaves the same output (I/O failures aside).
NoIOError(r) == r.ok \/ r.kind # "IOError"

C8_RecompileIdentical ==
    (/\ pc = "done"
     /\ is_some(first)
     /\ NoIOError(unwrap(result))
     /\ NoIOError(unwrap(first).result))
        => output = unwrap(first).output

\* the imports of handlers: those of a route file
IsHandlerImport(import) == ends_with(import.from, S_slash \o S_route)

\* C9: the handler aliases of two route nodes with distinct relative paths differ.
C9_AliasesUnique ==
    is_some(transformed) =>
        \A i, j \in 1..Len(CompiledImports) :
            (/\ IsHandlerImport(CompiledImports[i])
             /\ IsHandlerImport(CompiledImports[j])
             /\ CompiledImports[i].from # CompiledImports[j].from)
                => CompiledImports[i].alias # CompiledImports[j].alias

\* the endpoint path of the directories dirs: virtual groups dropped, the other
\* segments kept, and the separator of the route file
RECURSIVE EndpointOfDirs(_)
EndpointOfDirs(dirs) ==
    IF dirs = <<>> THEN S_slash
    ELSE IF is_virtual_group(Head(dirs)) THEN EndpointOfDirs(Tail(dirs))
    ELSE S_slash \o Head(dirs) \o EndpointOfDirs(Tail(dirs))

\* C10: compilation never rejects an attached route file because of its
\* extension, and every attached route file (here: outside every sub-router) is
\* registered at the path derived from its directories.
C10_AnyExtensionCompiled ==
    /\ (is_some(result) /\ ~unwrap(result).ok) => unwrap(result).kind # "InvalidRoutePath"
    /\ \A n \in RouteNodes :
           (~is_some(n.middlewares) /\ MiddlewareAncestors(n) = {}) =>
               /\ Len(RegistrationsOf(n)) = 1
               /\ RegistrationsOf(n)[1].path = EndpointOfDirs(DirsOf(n))

\* the statement mounting the sub-router of a node with a middleware file
MountOf(n) == OfKind(StatementsOf(CompiledRoutes, n.relative_path), "use_router")[1]

\* the path under which the sub-router of n is reached from the root
\* application: the mount paths of the chain of sub-routers down to n's
RECURSIVE MountChainPath(_)
MountChainPath(n) ==
    (IF MiddlewareAncestors(n) = {} THEN <<>>
     ELSE MountChainPath(NearestMiddlewareAncestor(n)))
    \o MountOf(n).path

\* the path under which the route of n is reached from the root application
GlobalEndpointPath(n) ==
    (IF is_some(n.middlewares) THEN MountChainPath(n)
     ELSE IF MiddlewareAncestors(n) # {} THEN MountChainPath(NearestMiddlewareAncestor(n))
     ELSE <<>>)
    \o RegistrationsOf(n)[1].path

\* C11: for every route file, the mount paths of the sub-routers it is
\* registered under, followed by its registration path, give its directory path
\* below the routing root with the virtual-group segments removed.
C11_GlobalEndpointPath ==
    \A n \in RouteNodes :
        /\ Len(RegistrationsOf(n)) = 1
        /\ GlobalEndpointPath(n) = EndpointOfDirs(DirsOf(n))

\* a list of children in the order of their lower-cased names
SortedByName(children) ==
    \A i \in 1..(Len(children) - 1) :
        ~str_less(to_lowercase(children[i + 1].name), to_lowercase(children[i].name))

\* the directories of the source tree at and below the routing root
AppDirs == {d \in fs_dirs : d # <<>> /\ d[1] = S_app}

\* C12: once sort_app_route has run on the root, the children of every node of
\* the tree are in the order of their lower-cased names, and the nodes are
\* still those the builder made: one per directory at and below the routing
\* root, with its name and relative_path, and with route and middleware
\* references that name files of its directory.
C12_ChildrenSortedEverywhere ==
    ("sort" \in steps_ok /\ is_some(app_struct)) =>
        LET nodes == Nodes(unwrap(app_struct).app)
        IN  /\ \A n \in nodes : SortedByName(n.children)
            /\ {n.relative_path : n \in nodes} = {join(d) : d \in AppDirs}
            /\ Cardinality(nodes) = Cardinality(AppDirs)
            /\ \A n \in nodes :
                   \E d \in AppDirs :
                       /\ n.relative_path = join(d)
                       /\ n.name = d[Len(d)]
                       /\ is_some(n.route) => Append(d, unwrap(n.route)) \in fs_files
                       /\ is_some(n.middlewares) =>
                              Append(d, unwrap(n.middlewares)) \in fs_files

\* the name under which an item of a recognized shape is to be reported
ReportedName(item) ==
    IF item.node \in {"ExportDefaultArrow", "ExportDefaultFnExpr"} THEN S_default
    ELSE item.name

\* the names of the items of the recognized shapes, in source order
RecognizedNames(items) ==
    LET recognized == SelectSeq(items, IsRecognizedShape)
    IN  [i \in 1..Len(recognized) |-> ReportedName(recognized[i])]

\* the names the scanner returns for a module
ScannedNames(module) ==
    LET handlers == get_endpoint_handlers(module).value
    IN  [i \in 1..Len(handlers) |-> handlers[i].export_name]

\* C13: for every route file that was scanned and parses, the scanner returns
\* the items of the three recognized shapes, in source order, and nothing else.
C13_ScannerReturnsRecognized ==
    \A f \in DOMAIN fs_content :
        fs_content[f].parses =>
            /\ get_endpoint_handlers(fs_content[f]).ok
            /\ ScannedNames(fs_content[f]) = RecognizedNames(fs_content[f].items)

(***************************************************************************)
(* The top-level files: compile() on a source directory holding any of     *)
(* middlewares, tail-middlewares and settings with any of the configured   *)
(* extensions, beside an empty src/app.                                    *)
(***************************************************************************)
TopLevelFiles ==
    {<<name>> : name \in get_middlewares_filenames \cup get_tail_middlewares_filenames
                             \cup get_settings_filenames}

InitTop ==
    /\ fs_dirs = {SrcRoot, AppDir}
    /\ fs_files \in SUBSET TopLevelFiles
    /\ fs_content = <<>>
    /\ pc = "template"
    /\ server_template = "SERVER_TEMPLATE"
    /\ app_struct = None
    /\ transformed = None
    /\ result = None
    /\ output = None
    /\ write_calls = 0
    /\ steps_ok = {}
    /\ first = None

NextTop ==
    \/ LoadTemplate
    \/ EnsureOutputDir
    \/ BuildAppStruct
    \/ SortAppRoute
    \/ CompileAppStruct(Modules)
    \/ WriteOutput

SpecTop == InitTop /\ [][NextTop]_vars

\* the first file of the walk whose path below src is one of names
RECURSIVE FirstMatch(_, _)
FirstMatch(walk, names) ==
    IF walk = <<>> THEN None
    ELSE IF ~Head(walk).is_dir /\ join(Head(walk).comps) \in names
         THEN Some(join(Head(walk).comps))
         ELSE FirstMatch(Tail(walk), names)

\* C14: in whatever order the walk about to be made lists the source
\* directory, the reference get_app_struct records for each top-level role is
\* the first file of the walk that matches the role.
C14_FirstTopLevelMatchKept ==
    pc = "build" =>
        \A walk \in WalkOrders(fs_dirs, fs_files, Entry(TRUE, SrcRoot)) :
            /\ get_app_struct(walk).top_level_middlewares
                   = FirstMatch(walk, get_middlewares_filenames)
            /\ get_app_struct(walk).tail_middlewares
                   = FirstMatch(walk, get_tail_middlewares_filenames)
            /\ get_app_struct(walk).settings
                   = FirstMatch(walk, get_settings_filenames)

\* the router identifiers a statement refers to, the root application aside
RoutersUsedBy(st) ==
    (CASE st.kind = "use_router" -> {st.parent, st.identifier}
       [] st.kind = "use_middlewares" -> {st.identifier}
       [] st.kind = "all" -> {st.router}
       [] OTHER -> {}) \ {S_app}

\* C15: in one generated module no two sub-routers are declared under the
\* same identifier, no two nodes activate middleware under the same import
\* alias, and every statement that refers to a sub-router comes after the
\* declaration of that sub-router.
C15_SubRoutersDeclaredOnce ==
    is_some(transformed) =>
        /\ \A i, j \in 1..Len(CompiledRoutes) :
               (i < j /\ CompiledRoutes[i].kind = "const_router"
                      /\ CompiledRoutes[j].kind = "const_router")
                   => CompiledRoutes[i].identifier # CompiledRoutes[j].identifier
        /\ \A i, j \in 1..Len(CompiledRoutes) :
               (i < j /\ CompiledRoutes[i].kind = "use_middlewares"
                      /\ CompiledRoutes[j].kind = "use_middlewares")
                   => CompiledRoutes[i].alias # CompiledRoutes[j].alias
        /\ \A j \in 1..Len(CompiledRoutes) :
               \A router \in RoutersUsedBy(CompiledRoutes[j]) :
                   \E i \in 1..(j - 1) :
                       /\ CompiledRoutes[i].kind = "const_router"
                       /\ CompiledRoutes[i].identifier = router

====
